---- MODULE Spec2Model ----
(***************************************************************************)
(* Model of the Instagram content pipeline: the text scraping of           *)
(* InstagramContentCrew (instagram_crew.py) and the image adapter          *)
(* ImageGenerator (image_generator.py).                                    *)
(*                                                                         *)
(* A Python str is modelled as a sequence of one-character strings, so     *)
(* that split, strip, upper, startswith and the substring test are         *)
(* computed character by character, as the interpreter computes them.      *)
(***************************************************************************)
EXTENDS Integers, Sequences, FiniteSets, TLC

VARIABLES
    content,    \* the text handed to a text-scraping method
    topic,      \* the topic handed to _parse_image_prompts / _save_result
    op,         \* the method that has been applied ("none" before the call)
    ret,        \* what the method returned
    written,    \* the paths of the files written so far, in order
    config,     \* the values config.py exports
    generator,  \* the ImageGenerator instance: its state, api_type and api_key
    prompts,    \* generate_images: the prompts argument
    num_images, \* generate_images: the num_images argument
    gi,         \* generate_images: position of the `for prompt in prompts` loop
    gr,         \* _generate_pollinations: repetition of the inner loop
    images,     \* the list of image dicts being built, then returned
    ig_pc,      \* where the ImageGenerator call stands
    http_log,   \* the HTTP requests made so far, each with its outcome
    si,         \* save_images: position of the `for i, img_data` loop
    saved_paths, \* save_images: the paths saved so far, then returned
    stage,      \* the stage create_content is in
    history,    \* the stages entered so far, in order
    save_flag,  \* create_content: the save_images argument
    outputs,    \* task.output of each task, None until the task has run
    context_seen, \* the context outputs each task was started with
    image_prompts, \* create_content: the parsed image prompts
    final_result, \* create_content: the dict compiled and returned
    error,      \* the exception propagating to the caller, "none" without one
    cli,        \* main: running, completed or reported (the error message printed)
    other_written \* the file paths written by another invocation of the program

textVars == <<content, topic, op, ret, written>>
adapterVars ==
    <<config, generator, prompts, num_images, gi, gr, images, ig_pc, http_log, si, saved_paths>>
pipeVars ==
    <<stage, history, save_flag, outputs, context_seen, image_prompts, final_result, error, cli>>
vars == <<textVars, adapterVars, pipeVars, other_written>>

(***************************************************************************)
(* Bounds of the model.                                                    *)
(***************************************************************************)
MaxLines == 4
TagsPerLine == 16
MaxTopicLen == 3
MaxPrompts == 2
MaxCount == 2
MaxImages == 3

(***************************************************************************)
(* Python str primitives.                                                  *)
(***************************************************************************)
NL == "\n"
Whitespace == {" ", "\t", "\n"}

UpperLetters == <<"A", "B", "C", "D", "E", "F", "G", "H", "I", "J", "K", "L", "M",
                  "N", "O", "P", "Q", "R", "S", "T", "U", "V", "W", "X", "Y", "Z">>
LowerLetters == <<"a", "b", "c", "d", "e", "f", "g", "h", "i", "j", "k", "l", "m",
                  "n", "o", "p", "q", "r", "s", "t", "u", "v", "w", "x", "y", "z">>
DigitChars == <<"0", "1", "2", "3", "4", "5", "6", "7", "8", "9">>

Range(s) == {s[i] : i \in 1..Len(s)}

Min(S) == CHOOSE x \in S : \A y \in S : x <= y

\* str.upper() on one character
UpperChar(c) ==
    IF c \in Range(LowerLetters)
    THEN UpperLetters[CHOOSE i \in 1..26 : LowerLetters[i] = c]
    ELSE c

\* str.upper()
Upper(s) == [i \in 1..Len(s) |-> UpperChar(s[i])]

\* s[i:j] with 1-based inclusive bounds; empty when i > j
Slice(s, i, j) == IF i > j THEN <<>> ELSE SubSeq(s, i, j)

\* str.startswith(p)
StartsWith(s, p) == Len(s) >= Len(p) /\ SubSeq(s, 1, Len(p)) = p

\* str.endswith(p)
EndsWith(s, p) == Len(s) >= Len(p) /\ SubSeq(s, Len(s) - Len(p) + 1, Len(s)) = p

\* `sub in s`
Contains(s, sub) ==
    \E i \in 1..(Len(s) - Len(sub) + 1) : SubSeq(s, i, i + Len(sub) - 1) = sub

\* str.lstrip(chars)
LStripChars(s, chars) ==
    LET keep == {i \in 1..Len(s) : s[i] \notin chars}
    IN  IF keep = {} THEN <<>> ELSE SubSeq(s, Min(keep), Len(s))

\* str.rstrip(chars)
RStripChars(s, chars) ==
    LET keep == {i \in 1..Len(s) : s[i] \notin chars}
    IN  IF keep = {} THEN <<>> ELSE SubSeq(s, 1, CHOOSE i \in keep : \A j \in keep : j <= i)

\* str.strip(), str.rstrip()
Strip(s) == RStripChars(LStripChars(s, Whitespace), Whitespace)
RStrip(s) == RStripChars(s, Whitespace)

\* str.split(sep) for a one-character separator: always at least one piece
RECURSIVE SplitFrom(_, _, _)
SplitFrom(s, sep, i) ==
    LET hits == {j \in i..Len(s) : s[j] = sep}
    IN  IF hits = {} THEN <<Slice(s, i, Len(s))>>
        ELSE <<Slice(s, i, Min(hits) - 1)>> \o SplitFrom(s, sep, Min(hits) + 1)

Split(s, sep) == SplitFrom(s, sep, 1)

\* str.split() without arguments: runs of whitespace separate, no empty piece
RECURSIVE SplitWsFrom(_, _)
SplitWsFrom(s, i) ==
    LET starts == {j \in i..Len(s) : s[j] \notin Whitespace}
    IN  IF starts = {} THEN <<>>
        ELSE LET b == Min(starts)
                 stops == {j \in b..Len(s) : s[j] \in Whitespace}
                 e == IF stops = {} THEN Len(s) ELSE Min(stops) - 1
             IN  <<SubSeq(s, b, e)>> \o SplitWsFrom(s, e + 1)

SplitWs(s) == SplitWsFrom(s, 1)

\* sep.join(parts)
RECURSIVE Join(_, _)
Join(parts, sep) ==
    IF parts = <<>> THEN <<>>
    ELSE IF Len(parts) = 1 THEN parts[1]
    ELSE parts[1] \o sep \o Join(Tail(parts), sep)

\* s * n
RECURSIVE Repeat(_, _)
Repeat(s, n) == IF n <= 0 THEN <<>> ELSE s \o Repeat(s, n - 1)

\* list.index(x): the first position holding x
IndexOf(xs, x) == Min({i \in 1..Len(xs) : xs[i] = x})

\* xs[:n]
Take(xs, n) == IF Len(xs) <= n THEN xs ELSE SubSeq(xs, 1, n)

(***************************************************************************)
(* Literals of instagram_crew.py.                                          *)
(***************************************************************************)
SHORT_CAPTION == <<"S", "H", "O", "R", "T", " ", "C", "A", "P", "T", "I", "O", "N">>
SHORT_COLON == <<"S", "H", "O", "R", "T", ":">>
LONG_CAPTION == <<"L", "O", "N", "G", " ", "C", "A", "P", "T", "I", "O", "N">>
LONG_COLON == <<"L", "O", "N", "G", ":">>
ShortPlaceholder ==
    <<"C", "h", "e", "c", "k", " ", "t", "h", "e", " ", "f", "u", "l", "l", " ",
      "c", "o", "n", "t", "e", "n", "t", " ", "f", "o", "r", " ", "s", "h", "o",
      "r", "t", " ", "c", "a", "p", "t", "i", "o", "n">>
HashtagLimit == 30

(***************************************************************************)
(* InstagramContentCrew._extract_short_caption                             *)
(***************************************************************************)
IsShortMarker(line) ==
    Contains(Upper(line), SHORT_CAPTION) \/ Contains(Upper(line), SHORT_COLON)

\* ShortScan with the blank-line skip lost: whatever line follows the marker
ShortScanNoSkip(lines, k) ==
    LET marked == {i \in 1..Len(lines) : IsShortMarker(lines[i])}
    IN  IF marked = {} \/ Min(marked) = Len(lines) THEN ShortPlaceholder
        ELSE Strip(lines[Min(marked) + 1])

\* the outer `for line in lines` from position k on
RECURSIVE ShortScan(_, _)
ShortScan(lines, k) ==
    IF k > Len(lines) THEN ShortPlaceholder
    ELSE IF IsShortMarker(lines[k])
         THEN LET idx == IndexOf(lines, lines[k])
                  nonblank == {i \in (idx + 1)..Len(lines) : Strip(lines[i]) # <<>>}
              IN  IF nonblank # {} THEN Strip(lines[Min(nonblank)])
                  ELSE ShortScan(lines, k + 1)
         ELSE ShortScan(lines, k + 1)

extract_short_caption(text) == ShortScan(Split(text, NL), 1)

(***************************************************************************)
(* InstagramContentCrew._extract_long_caption                              *)
(***************************************************************************)
IsLongMarker(line) ==
    Contains(Upper(line), LONG_CAPTION) \/ Contains(Upper(line), LONG_COLON)

\* LongAccum that stops at any line starting with '#'
RECURSIVE LongAccumStopAtHash(_, _, _)
LongAccumStopAtHash(lines, i, caption_lines) ==
    IF i > Len(lines) THEN caption_lines
    ELSE LET s == Strip(lines[i])
         IN  IF s # <<>> /\ ~StartsWith(s, <<"#">>)
             THEN LongAccumStopAtHash(lines, i + 1, Append(caption_lines, s))
             ELSE IF StartsWith(s, <<"#">>)
                  THEN caption_lines
                  ELSE LongAccumStopAtHash(lines, i + 1, caption_lines)

\* the inner `for i in range(idx + 1, len(lines))`, caption_lines collected so far
RECURSIVE LongAccum(_, _, _)
LongAccum(lines, i, caption_lines) ==
    IF i > Len(lines) THEN caption_lines
    ELSE LET s == Strip(lines[i])
         IN  IF s # <<>> /\ ~StartsWith(s, <<"#">>)
             THEN LongAccum(lines, i + 1, Append(caption_lines, s))
             ELSE IF StartsWith(s, <<"#">>) /\ caption_lines # <<>>
                  THEN caption_lines
                  ELSE LongAccum(lines, i + 1, caption_lines)

\* LongScan whose fall-through returns the trimmed text
LongScanTrimmed(text, lines, k) ==
    IF \E i \in 1..Len(lines) : IsLongMarker(lines[i])
    THEN Join(LongAccum(lines, Min({i \in 1..Len(lines) : IsLongMarker(lines[i])}) + 1, <<>>), <<NL>>)
    ELSE Strip(text)

RECURSIVE LongScan(_, _, _)
LongScan(text, lines, k) ==
    IF k > Len(lines) THEN text
    ELSE IF IsLongMarker(lines[k])
         THEN Join(LongAccum(lines, IndexOf(lines, lines[k]) + 1, <<>>), <<NL>>)
         ELSE LongScan(text, lines, k + 1)

extract_long_caption(text) == LongScan(text, Split(text, NL), 1)

(***************************************************************************)
(* InstagramContentCrew._extract_hashtags                                  *)
(***************************************************************************)
\* the word test with `len(word) > 1` lost
IsHashtagWordAnyLen(word) == StartsWith(word, <<"#">>)

IsHashtagWord(word) == StartsWith(word, <<"#">>) /\ Len(word) > 1

\* the hashtags one line contributes
LineHashtags(line) ==
    IF "#" \in Range(line) THEN SelectSeq(SplitWs(line), IsHashtagWord) ELSE <<>>

RECURSIVE HashtagScan(_, _, _)
HashtagScan(lines, k, hashtags) ==
    IF k > Len(lines) THEN hashtags
    ELSE HashtagScan(lines, k + 1, hashtags \o LineHashtags(lines[k]))

extract_hashtags(text) == Take(HashtagScan(Split(text, NL), 1, <<>>), HashtagLimit)

(***************************************************************************)
(* InstagramContentCrew._parse_image_prompts                               *)
(***************************************************************************)
\* the bullet character U+2022, one character of the str
Bullet == "U+2022"

\* '0123456789.-(bullet) ' of line.lstrip(...)
EnumerationChars == Range(DigitChars) \cup {".", "-", Bullet, " "}

MinPromptLineLen == 20
NumPrompts == 3

Fallback1(t) ==
    <<"P", "r", "o", "f", "e", "s", "s", "i", "o", "n", "a", "l", " ", "I", "n",
      "s", "t", "a", "g", "r", "a", "m", " ", "p", "o", "s", "t", " ", "a", "b",
      "o", "u", "t", " ">> \o t \o
    <<",", " ", "m", "o", "d", "e", "r", "n", " ", "d", "e", "s", "i", "g", "n",
      ",", " ", "h", "i", "g", "h", " ", "q", "u", "a", "l", "i", "t", "y">>

Fallback2(t) ==
    <<"E", "n", "g", "a", "g", "i", "n", "g", " ", "s", "o", "c", "i", "a", "l",
      " ", "m", "e", "d", "i", "a", " ", "v", "i", "s", "u", "a", "l", " ", "f",
      "o", "r", " ">> \o t \o
    <<",", " ", "v", "i", "b", "r", "a", "n", "t", " ", "c", "o", "l", "o", "r",
      "s", ",", " ", "s", "q", "u", "a", "r", "e", " ", "f", "o", "r", "m", "a",
      "t">>

Fallback3(t) ==
    <<"C", "r", "e", "a", "t", "i", "v", "e", " ", "i", "l", "l", "u", "s", "t",
      "r", "a", "t", "i", "o", "n", " ", "r", "e", "p", "r", "e", "s", "e", "n",
      "t", "i", "n", "g", " ">> \o t \o
    <<",", " ", "c", "l", "e", "a", "n", " ", "b", "a", "c", "k", "g", "r", "o",
      "u", "n", "d", ",", " ", "I", "n", "s", "t", "a", "g", "r", "a", "m", " ",
      "r", "e", "a", "d", "y">>

\* the fallback list with its last entry lost
FallbacksShort(t) == <<Fallback1(t), Fallback2(t)>>

\* the list handed to prompts.extend(...)
Fallbacks(t) == <<Fallback1(t), Fallback2(t), Fallback3(t)>>

\* a loop without the `if clean_line` test
RECURSIVE PromptScanKeepsEmpty(_, _, _)
PromptScanKeepsEmpty(lines, k, found) ==
    IF k > Len(lines) THEN found
    ELSE LET line == Strip(lines[k])
             clean_line == Strip(LStripChars(line, EnumerationChars))
         IN  IF line # <<>> /\ ~StartsWith(line, <<"#">>) /\ Len(line) > MinPromptLineLen
             THEN PromptScanKeepsEmpty(lines, k + 1, Append(found, clean_line))
             ELSE PromptScanKeepsEmpty(lines, k + 1, found)

\* the `for line in lines` loop from position k on; found is the list `prompts` so far
RECURSIVE PromptScan(_, _, _)
PromptScan(lines, k, found) ==
    IF k > Len(lines) THEN found
    ELSE LET line == Strip(lines[k])
             clean_line == Strip(LStripChars(line, EnumerationChars))
         IN  IF line # <<>> /\ ~StartsWith(line, <<"#">>) /\ Len(line) > MinPromptLineLen
                /\ clean_line # <<>>
             THEN PromptScan(lines, k + 1, Append(found, clean_line))
             ELSE PromptScan(lines, k + 1, found)

parse_image_prompts(image_prompts_result, t) ==
    LET found == PromptScan(Split(image_prompts_result, NL), 1, <<>>)
        padded == IF Len(found) < NumPrompts THEN found \o Fallbacks(t) ELSE found
    IN  Take(padded, NumPrompts)

(***************************************************************************)
(* InstagramContentCrew._save_result: the name of the result file          *)
(***************************************************************************)
\* str.isalnum() on one character
IsAlnum(c) == c \in Range(UpperLetters) \cup Range(LowerLetters) \cup Range(DigitChars)

\* the decimal digits of n >= 0
RECURSIVE Dec(_)
Dec(n) == IF n < 10 THEN <<DigitChars[n + 1]>> ELSE Dec(n \div 10) \o <<DigitChars[(n % 10) + 1]>>

\* a strftime field: n in decimal, zero-padded to `width` digits
Pad(n, width) == Repeat(<<"0">>, width - Len(Dec(n))) \o Dec(n)

\* datetime.strftime("%Y%m%d_%H%M%S")
Strftime(now) ==
    Pad(now.year, 4) \o Pad(now.month, 2) \o Pad(now.day, 2) \o <<"_">> \o
    Pad(now.hour, 2) \o Pad(now.minute, 2) \o Pad(now.second, 2)

\* str.replace(old, new) for one-character old and new
Replace(s, old, new) == [i \in 1..Len(s) |-> IF s[i] = old THEN new ELSE s[i]]

IsSafeChar(c) == IsAlnum(c) \/ c \in {" ", "-", "_"}

\* safe_topic with the space replacement lost
SafeTopicKeepSpaces(t) == RStrip(SelectSeq(t, IsSafeChar))

safe_topic(t) == Replace(RStrip(SelectSeq(t, IsSafeChar)), " ", "_")

ResultsPrefix ==
    <<"r", "e", "s", "u", "l", "t", "s", "/", "i", "n", "s", "t", "a", "g", "r",
      "a", "m", "_", "c", "o", "n", "t", "e", "n", "t", "_">>
JsonSuffix == <<".", "j", "s", "o", "n">>

ResultFilename(t, now) ==
    ResultsPrefix \o safe_topic(t) \o <<"_">> \o Strftime(now) \o JsonSuffix

(***************************************************************************)
(* config.py: the settings image_generator.py imports                      *)
(***************************************************************************)
NoConfig ==
    [IMAGE_GENERATION_API |-> "", NANO_BANANA_API_KEY |-> "", SEGMIND_API_KEY |-> "",
     STABILITY_API_KEY |-> ""]

\* an environment value: unset (empty) or set
KeyValues == {"", "key-1", "key-2"}

ApiNames == {"nano_banana", "segmind", "stability", "pollinations", "dalle"}

Configs ==
    [IMAGE_GENERATION_API : ApiNames, NANO_BANANA_API_KEY : KeyValues,
     SEGMIND_API_KEY : KeyValues, STABILITY_API_KEY : KeyValues]

(***************************************************************************)
(* ImageGenerator.__init__ and _get_api_key                                *)
(***************************************************************************)
KeyBasedApis == {"nano_banana", "segmind", "stability"}
SupportedApis == KeyBasedApis \cup {"pollinations"}

\* _get_api_key for a supported api_type
get_api_key(cfg) ==
    CASE cfg.IMAGE_GENERATION_API = "nano_banana" -> cfg.NANO_BANANA_API_KEY
      [] cfg.IMAGE_GENERATION_API = "segmind" -> cfg.SEGMIND_API_KEY
      [] cfg.IMAGE_GENERATION_API = "stability" -> cfg.STABILITY_API_KEY
      [] cfg.IMAGE_GENERATION_API = "pollinations" -> ""

NoGenerator == [state |-> "none", api_type |-> "", api_key |-> ""]

\* ImageGenerator(): api_type is IMAGE_GENERATION_API; an unsupported api_type
\* raises ValueError out of the constructor, nothing else does
NewImageGenerator(cfg) ==
    IF cfg.IMAGE_GENERATION_API \in SupportedApis
    THEN [state |-> "constructed", api_type |-> cfg.IMAGE_GENERATION_API,
          api_key |-> get_api_key(cfg)]
    ELSE [state |-> "raised", api_type |-> cfg.IMAGE_GENERATION_API, api_key |-> ""]

(***************************************************************************)
(* ImageGenerator.generate_images                                          *)
(***************************************************************************)
\* Python's None, where a str (a sequence of characters) may stand
None == <<"None">>

\* dict.get(k)
Get(d, k) == IF k \in DOMAIN d THEN d[k] ELSE None

\* the truth value of a str or None
Truthy(v) == v # None /\ v # <<>>

Max(a, b) == IF a >= b THEN a ELSE b

\* urllib.parse.quote(s) with safe='/': the characters left as they are
Unreserved ==
    Range(UpperLetters) \cup Range(LowerLetters) \cup Range(DigitChars)
        \cup {"_", ".", "-", "~", "/"}

\* %XX of the UTF-8 bytes of a reserved character
PercentEncoded(c) ==
    CASE c = " " -> <<"%", "2", "0">>
      [] c = "!" -> <<"%", "2", "1">>
      [] c = "#" -> <<"%", "2", "3">>
      [] c = "%" -> <<"%", "2", "5">>
      [] c = "&" -> <<"%", "2", "6">>
      [] c = "," -> <<"%", "2", "C">>
      [] c = ":" -> <<"%", "3", "A">>
      [] c = "=" -> <<"%", "3", "D">>
      [] c = "?" -> <<"%", "3", "F">>
      [] c = "\t" -> <<"%", "0", "9">>
      [] c = Bullet -> <<"%", "E", "2", "%", "8", "0", "%", "A", "2">>

QuoteChar(c) == IF c \in Unreserved THEN <<c>> ELSE PercentEncoded(c)

\* quote that escapes nothing
QuoteNothing(s) == s

RECURSIVE Quote(_)
Quote(s) == IF s = <<>> THEN <<>> ELSE QuoteChar(Head(s)) \o Quote(Tail(s))

BaseUrl ==
    <<"h", "t", "t", "p", "s", ":", "/", "/", "i", "m", "a", "g", "e", ".", "p", "o", "l",
      "l", "i", "n", "a", "t", "i", "o", "n", "s", ".", "a", "i", "/", "p", "r", "o", "m",
      "p", "t", "/">>
QuerySuffix ==
    <<"?", "w", "i", "d", "t", "h", "=", "1", "0", "2", "4", "&", "h", "e", "i", "g", "h",
      "t", "=", "1", "0", "2", "4", "&", "e", "n", "h", "a", "n", "c", "e", "=", "t", "r",
      "u", "e", "&", "s", "e", "e", "d", "=">>

\* random.randint(1, 10_000_000): the ends of the range
SeedMin == 1
SeedMax == 10000000
Seeds == {SeedMin, SeedMax}

PollinationsImage(prompt, seed) ==
    [prompt |-> prompt,
     url |-> BaseUrl \o Quote(prompt) \o QuerySuffix \o Dec(seed),
     api |-> "pollinations"]

\* the URL each key-based provider is POSTed at
Endpoint(api) ==
    CASE api = "nano_banana" -> "https://api.nanobanana.ai/v1/images/generations"
      [] api = "segmind" -> "https://api.segmind.com/v1/sdxl1.0-txt2img"
      [] api = "stability" ->
            "https://api.stability.ai/v1/generation/stable-diffusion-xl-1024-v1-0/text-to-image"

\* what requests.post / raise_for_status raise
HttpErrors == {"ConnectionError", "HTTPError"}

\* how one POST ends: an exception, or a JSON body listing some images
Outcomes(n) ==
    [status : {"error"}, error : HttpErrors, items : {0}]
        \cup [status : {"ok"}, error : {""}, items : 0..n]

\* payloads a provider answers with
ServerUrl ==
    <<"h", "t", "t", "p", "s", ":", "/", "/", "c", "d", "n", ".", "n", "a", "n", "o", "b",
      "a", "n", "a", "n", "a", ".", "a", "i", "/", "i", "/", "1", ".", "p", "n", "g">>
ServerBase64 == <<"i", "V", "B", "O", "R", "w", "0", "K", "G", "g", "o", "=">>

SuccessImage(api, prompt) ==
    IF api = "nano_banana"
    THEN [prompt |-> prompt, url |-> ServerUrl, api |-> api]
    ELSE [prompt |-> prompt, base64 |-> ServerBase64, api |-> api]

ErrorImage(api, prompt, e) == [prompt |-> prompt, url |-> None, error |-> e, api |-> api]

\* the except branch appending nothing
ResponseImagesDropError(api, prompt, outcome) ==
    IF outcome.status = "error" THEN <<>>
    ELSE [i \in 1..outcome.items |-> SuccessImage(api, prompt)]

\* what one pass of the try/except appends to images
ResponseImages(api, prompt, outcome) ==
    IF outcome.status = "error" THEN <<ErrorImage(api, prompt, outcome.error)>>
    ELSE [i \in 1..outcome.items |-> SuccessImage(api, prompt)]

\* generate_images(ps, n) is entered: the provider's loop starts with images = []
StartGenerate(ps, n) ==
    /\ generator.state = "constructed"
    /\ ig_pc = "idle"
    /\ prompts' = ps
    /\ num_images' = n
    /\ gi' = 1
    /\ gr' = 1
    /\ images' = <<>>
    /\ ig_pc' = IF generator.api_type \notin SupportedApis THEN "raised"
                ELSE IF ps = <<>> THEN "generated" ELSE "generating"
    /\ UNCHANGED <<config, generator, http_log, si, saved_paths>>

\* one pass of the inner loop of _generate_pollinations
GeneratePollinationsStep ==
    /\ ig_pc = "generating"
    /\ generator.api_type = "pollinations"
    /\ \E seed \in Seeds : images' = Append(images, PollinationsImage(prompts[gi], seed))
    /\ IF gr < Max(1, num_images)
       THEN gr' = gr + 1 /\ gi' = gi /\ ig_pc' = ig_pc
       ELSE /\ gr' = 1
            /\ gi' = gi + 1
            /\ ig_pc' = IF gi = Len(prompts) THEN "generated" ELSE "generating"
    /\ UNCHANGED <<config, generator, prompts, num_images, http_log, si, saved_paths>>

\* a loop that POSTs once for every repetition of every prompt
GenerateKeyedStepPerRepetition ==
    /\ ig_pc = "generating"
    /\ generator.api_type \in KeyBasedApis
    /\ \E outcome \in Outcomes(1) :
          /\ http_log' = Append(http_log,
                [method |-> "POST", endpoint |-> Endpoint(generator.api_type),
                 prompt |-> prompts[gi], n |-> 1, outcome |-> outcome])
          /\ images' = images \o ResponseImages(generator.api_type, prompts[gi], outcome)
    /\ IF gr < Max(1, num_images)
       THEN gr' = gr + 1 /\ gi' = gi /\ ig_pc' = ig_pc
       ELSE /\ gr' = 1
            /\ gi' = gi + 1
            /\ ig_pc' = IF gi = Len(prompts) THEN "generated" ELSE "generating"
    /\ UNCHANGED <<config, generator, prompts, num_images, si, saved_paths>>

\* one pass of the loop of _generate_nano_banana / _generate_segmind /
\* _generate_stability: one POST, then the images of the body or the error entry
GenerateKeyedStep ==
    /\ ig_pc = "generating"
    /\ generator.api_type \in KeyBasedApis
    /\ \E outcome \in Outcomes(num_images) :
          /\ http_log' = Append(http_log,
                [method |-> "POST", endpoint |-> Endpoint(generator.api_type),
                 prompt |-> prompts[gi], n |-> num_images, outcome |-> outcome])
          /\ images' = images \o ResponseImages(generator.api_type, prompts[gi], outcome)
    /\ gi' = gi + 1
    /\ ig_pc' = IF gi = Len(prompts) THEN "generated" ELSE "generating"
    /\ UNCHANGED <<config, generator, prompts, num_images, gr, si, saved_paths>>

(***************************************************************************)
(* ImageGenerator.save_images                                              *)
(***************************************************************************)
OutputDir ==
    <<"g", "e", "n", "e", "r", "a", "t", "e", "d", "_", "i", "m", "a", "g", "e", "s">>

ApiChars(api) ==
    CASE api = "nano_banana" -> <<"n", "a", "n", "o", "_", "b", "a", "n", "a", "n", "a">>
      [] api = "segmind" -> <<"s", "e", "g", "m", "i", "n", "d">>
      [] api = "stability" -> <<"s", "t", "a", "b", "i", "l", "i", "t", "y">>
      [] api = "pollinations" -> <<"p", "o", "l", "l", "i", "n", "a", "t", "i", "o", "n", "s">>

\* os.path.join(output_dir, f"image_{i+1}_{img_data['api']}.png"), i counted from 1 here
ImagePath(i, api) ==
    OutputDir \o <<"/", "i", "m", "a", "g", "e", "_">> \o Dec(i) \o <<"_">> \o ApiChars(api)
        \o <<".", "p", "n", "g">>

\* how decoding or downloading and writing one image ends
SaveOutcomes == {"saved", "raised"}

\* save_images(images) is entered: os.makedirs, saved_paths = []
StartSave ==
    /\ ig_pc = "generated"
    /\ si' = 1
    /\ saved_paths' = <<>>
    /\ ig_pc' = IF images = <<>> THEN "saved" ELSE "saving"
    /\ UNCHANGED <<config, generator, prompts, num_images, gi, gr, images, http_log>>

\* a loop that a failing entry ends
SaveImagesStepStopsAtFailure ==
    /\ ig_pc = "saving"
    /\ LET img_data == images[si]
           filepath == ImagePath(si, img_data.api)
           payload == Truthy(Get(img_data, "base64")) \/ Truthy(Get(img_data, "url"))
       IN  \E o \in SaveOutcomes :
              /\ written' = IF payload /\ o = "saved" THEN Append(written, filepath) ELSE written
              /\ saved_paths' =
                    IF payload /\ o = "saved" THEN Append(saved_paths, filepath) ELSE saved_paths
              /\ http_log' =
                    IF ~Truthy(Get(img_data, "base64")) /\ Truthy(Get(img_data, "url"))
                    THEN Append(http_log, [method |-> "GET", image |-> si, outcome |-> o])
                    ELSE http_log
              /\ ig_pc' = IF si = Len(images) \/ (payload /\ o = "raised")
                          THEN "saved" ELSE "saving"
    /\ si' = si + 1
    /\ UNCHANGED <<config, generator, prompts, num_images, gi, gr, images>>

\* a loop that lists the path of an entry whether or not it was written
SaveImagesStepListsAll ==
    /\ ig_pc = "saving"
    /\ LET img_data == images[si]
           filepath == ImagePath(si, img_data.api)
       IN  /\ saved_paths' = Append(saved_paths, filepath)
           /\ \E o \in SaveOutcomes :
                 written' = IF o = "saved" THEN Append(written, filepath) ELSE written
           /\ UNCHANGED http_log
    /\ si' = si + 1
    /\ ig_pc' = IF si = Len(images) THEN "saved" ELSE "saving"
    /\ UNCHANGED <<config, generator, prompts, num_images, gi, gr, images>>

\* one pass of the `for i, img_data in enumerate(images)` loop
SaveImagesStep ==
    /\ ig_pc = "saving"
    /\ LET img_data == images[si]
           filepath == ImagePath(si, img_data.api)
       IN  IF Truthy(Get(img_data, "base64"))
           THEN /\ \E o \in SaveOutcomes :
                      IF o = "saved"
                      THEN /\ written' = Append(written, filepath)
                           /\ saved_paths' = Append(saved_paths, filepath)
                      ELSE UNCHANGED <<written, saved_paths>>
                /\ UNCHANGED http_log
           ELSE IF Truthy(Get(img_data, "url"))
           THEN \E o \in SaveOutcomes :
                   /\ http_log' = Append(http_log, [method |-> "GET", image |-> si, outcome |-> o])
                   /\ IF o = "saved"
                      THEN /\ written' = Append(written, filepath)
                           /\ saved_paths' = Append(saved_paths, filepath)
                      ELSE UNCHANGED <<written, saved_paths>>
           ELSE UNCHANGED <<written, saved_paths, http_log>>
    /\ si' = si + 1
    /\ ig_pc' = IF si = Len(images) THEN "saved" ELSE "saving"
    /\ UNCHANGED <<config, generator, prompts, num_images, gi, gr, images>>

(***************************************************************************)
(* InstagramContentCrew.create_content and main                            *)
(***************************************************************************)
StageOrder ==
    <<"Idle", "Research", "Writing", "Review", "ImagePrompting", "ImageGeneration",
      "Persisted", "Done">>

\* the task list in the opposite order
TasksReversed == <<"image_prompt", "review", "writing", "research">>

\* tasks=[research_task, writing_task, review_task, image_prompt_task]
Tasks == <<"research", "writing", "review", "image_prompt">>

TaskStage(t) ==
    CASE t = "research" -> "Research"
      [] t = "writing" -> "Writing"
      [] t = "review" -> "Review"
      [] t = "image_prompt" -> "ImagePrompting"

LlmStages == {TaskStage(Tasks[i]) : i \in 1..Len(Tasks)}

TaskIndex(t) == CHOOSE i \in 1..Len(Tasks) : Tasks[i] = t

TaskAt(s) == CHOOSE t \in Range(Tasks) : TaskStage(t) = s

\* writing_task.context = [research_task]; review_task.context = [writing_task]
TaskContext(t) ==
    CASE t = "writing" -> <<"research">>
      [] t = "review" -> <<"writing">>
      [] OTHER -> <<>>

\* the outputs a task is handed as context when it starts
ContextOf(t, outs) == [i \in 1..Len(TaskContext(t)) |-> outs[TaskContext(t)[i]]]

NoOutputs == [t \in Range(Tasks) |-> None]
NoContexts == [t \in Range(Tasks) |-> <<>>]
NoResult == [topic |-> None]

\* num_images=1 in the call of generate_images
ImagesPerPrompt == 1

\* short_caption, long_caption and hashtags of the review text
ContentOf(review_result) ==
    [short_caption |-> extract_short_caption(review_result),
     long_caption |-> extract_long_caption(review_result),
     hashtags |-> extract_hashtags(review_result)]

Enter(s) == stage' = s /\ history' = Append(history, s)

\* main: crew = InstagramContentCrew(), which constructs the ImageGenerator
ConstructCrew ==
    /\ stage = "Idle"
    /\ generator.state = "none"
    /\ error = "none"
    /\ generator' = NewImageGenerator(config)
    /\ error' = IF NewImageGenerator(config).state = "raised" THEN "ValueError" ELSE "none"
    /\ UNCHANGED <<other_written, textVars, config, prompts, num_images, gi, gr, images, ig_pc, http_log, si,
                   saved_paths, stage, history, save_flag, outputs, context_seen,
                   image_prompts, final_result, cli>>

\* create_content up to crew.kickoff(): the first task starts
Kickoff ==
    /\ stage = "Idle"
    /\ generator.state = "constructed"
    /\ error = "none"
    /\ Enter(TaskStage(Tasks[1]))
    /\ context_seen' = [context_seen EXCEPT ![Tasks[1]] = ContextOf(Tasks[1], outputs)]
    /\ UNCHANGED <<other_written, textVars, adapterVars, save_flag, outputs, image_prompts, final_result,
                   error, cli>>

\* the running task returns its text; the sequential process starts the next task
TaskCompletes(llm) ==
    /\ stage \in LlmStages
    /\ error = "none"
    /\ outputs[TaskAt(stage)] = None
    /\ LET cur == TaskAt(stage)
       IN  \E out \in llm[cur] :
              LET outs == [outputs EXCEPT ![cur] = out]
              IN  /\ outputs' = outs
                  /\ IF TaskIndex(cur) < Len(Tasks)
                     THEN LET nxt == Tasks[TaskIndex(cur) + 1]
                          IN  /\ Enter(TaskStage(nxt))
                              /\ context_seen' =
                                    [context_seen EXCEPT ![nxt] = ContextOf(nxt, outs)]
                     ELSE UNCHANGED <<stage, history, context_seen>>
    /\ UNCHANGED <<other_written, textVars, adapterVars, save_flag, image_prompts, final_result, error, cli>>

\* a create_content that caught the failure and wrote a result all the same
TaskFailsPersists ==
    /\ stage \in LlmStages
    /\ error = "none"
    /\ outputs[TaskAt(stage)] = None
    /\ error' = "LLMError"
    /\ written' = Append(written, ResultFilename(topic, [year |-> 2024, month |-> 1, day |-> 5,
                                                        hour |-> 9, minute |-> 3, second |-> 7]))
    /\ UNCHANGED <<other_written, content, topic, op, ret, adapterVars, stage, history, save_flag, outputs,
                   context_seen, image_prompts, final_result, cli>>

\* the running task raises: crew.kickoff() raises out of create_content
TaskFails ==
    /\ stage \in LlmStages
    /\ error = "none"
    /\ outputs[TaskAt(stage)] = None
    /\ error' = "LLMError"
    /\ UNCHANGED <<other_written, textVars, adapterVars, stage, history, save_flag, outputs, context_seen,
                   image_prompts, final_result, cli>>

\* after kickoff: the prompts are parsed and generate_images is called
StartImageGeneration ==
    /\ stage = "ImagePrompting"
    /\ error = "none"
    /\ outputs["image_prompt"] # None
    /\ LET parsed == parse_image_prompts(outputs["image_prompt"], topic)
       IN  /\ image_prompts' = parsed
           /\ StartGenerate(parsed, ImagesPerPrompt)
    /\ Enter("ImageGeneration")
    /\ UNCHANGED <<other_written, textVars, save_flag, outputs, context_seen, final_result, error, cli>>

\* generate_images has returned: `if save_images and generated_images`
AfterGenerate ==
    /\ stage = "ImageGeneration"
    /\ ig_pc = "generated"
    /\ IF save_flag /\ images # <<>>
       THEN StartSave
       ELSE /\ ig_pc' = "skipped"
            /\ UNCHANGED <<config, generator, prompts, num_images, gi, gr, images, http_log,
                           si, saved_paths>>
    /\ UNCHANGED <<other_written, textVars, pipeVars>>

\* the result dict is compiled and _save_result writes it
PersistResult(clocks) ==
    /\ stage = "ImageGeneration"
    /\ ig_pc \in {"saved", "skipped"}
    /\ \E i \in 1..Len(clocks) : \E j \in i..Len(clocks) :
          /\ final_result' =
                [topic |-> topic,
                 created_at |-> clocks[i],
                 research |-> outputs["research"],
                 content |-> ContentOf(outputs["review"]),
                 image_prompts |-> image_prompts,
                 generated_images |-> images,
                 saved_image_paths |-> saved_paths]
          /\ written' = Append(written, ResultFilename(topic, clocks[j]))
    /\ Enter("Persisted")
    /\ UNCHANGED <<other_written, content, topic, op, ret, adapterVars, save_flag, outputs, context_seen,
                   image_prompts, error, cli>>

\* create_content returns; main prints the summary
ReturnResult ==
    /\ stage = "Persisted"
    /\ Enter("Done")
    /\ cli' = "completed"
    /\ UNCHANGED <<other_written, textVars, adapterVars, save_flag, outputs, context_seen, image_prompts,
                   final_result, error>>

\* main: except Exception as e: print(...)
ReportError ==
    /\ error # "none"
    /\ cli = "running"
    /\ cli' = "reported"
    /\ UNCHANGED <<other_written, textVars, adapterVars, stage, history, save_flag, outputs, context_seen,
                   image_prompts, final_result, error>>

(***************************************************************************)
(* Inputs: texts built of lines that exercise the scrapers, topics, clocks. *)
(***************************************************************************)
RECURSIVE SeqsUpTo(_, _)
SeqsUpTo(S, n) ==
    IF n = 0 THEN {<<>>}
    ELSE LET shorter == SeqsUpTo(S, n - 1)
         IN  shorter \cup {Append(q, x) : q \in shorter, x \in S}

L_blank == <<>>
L_space == <<" ", "\t">>
L_short_caption == <<"S", "h", "o", "r", "t", " ", "c", "a", "p", "t", "i", "o", "n">>
L_short_colon == <<"s", "h", "o", "r", "t", ":", " ", "h", "i">>
L_long_caption == <<"L", "o", "n", "g", " ", "C", "A", "P", "T", "I", "O", "N">>
L_long_colon == <<"l", "o", "n", "g", ":", " ", "x">>
L_hello == <<" ", "H", "e", "l", "l", "o", " ", "w", "o", "r", "l", "d", " ">>
L_tags == <<"\t", "#", " ", "a", "#", "b", " ", "#", "a", "i">>
L_many_tags == Repeat(<<"#", "t", " ">>, TagsPerLine)

ShortLinePool == {L_blank, L_space, L_short_caption, L_short_colon, L_hello}
LongLinePool == {L_blank, L_long_caption, L_long_colon, L_hello, L_tags}
TagLinePool == {L_blank, L_hello, L_tags, L_many_tags}

P_twenty == <<"A", " ", "s", "u", "n", "s", "e", "t", " ", "o", "v", "e", "r", " ", "a", " ", "l", "a", "k", "e">>
P_numbered == <<"1", ".", " ">> \o P_twenty
P_bulleted ==
    <<" ", Bullet, " ", "-", " ", "N", "e", "o", "n", " ", "c", "i", "t", "y", " ", "s", "k",
      "y", "l", "i", "n", "e", " ", "a", "t", " ", "n", "i", "g", "h", "t", " ">>
P_heading ==
    <<"#", "#", " ", "I", "m", "a", "g", "e", " ", "p", "r", "o", "m", "p", "t", "s", " ",
      "f", "o", "r", " ", "t", "h", "e", " ", "p", "o", "s", "t">>
P_digits ==
    <<"2", "0", "2", "4", "-", "0", "5", "-", "0", "6", " ", "1", "0", ".", "2", "0", ".",
      "3", "0", " ", "-", " ", "1", ".", "0">>

\* a numbered line with a tab after the number
P_tabbed == <<"2", ".", "\t">> \o P_twenty \o <<"!">>

PromptLinePool == {L_blank, P_twenty, P_numbered, P_bulleted, P_heading, P_digits, P_tabbed}

T_AI == <<"A", "I">>
T_example == <<"A", "I", ":", " ", "T", "h", "e", " ", "F", "u", "t", "u", "r", "e", "?", "!">>
PromptTopics == {T_AI, T_example}

TopicChars == {"A", "b", "7", " ", "-", "_", "!"}
\* topics as main() hands them over: stripped and not empty
FileTopics ==
    {t \in SeqsUpTo(TopicChars, MaxTopicLen) : t # <<>> /\ Strip(t) = t} \cup {T_example}

G_cat == <<"a", " ", "c", "a", "t">>
G_odd == <<"5", "%", ",", " ", "A", "/", "b", "~", Bullet, "?">>
GeneratePrompts == {G_cat, G_odd}

\* generators as the constructor leaves them
ReadyGenerators ==
    {[state |-> "constructed", api_type |-> a, api_key |-> IF a \in KeyBasedApis THEN "key-1" ELSE ""] :
        a \in SupportedApis}

IdleText == content = <<>> /\ op = "none" /\ ret = <<>>

IdlePipeline ==
    /\ stage = "Idle"
    /\ history = <<"Idle">>
    /\ save_flag = FALSE
    /\ outputs = NoOutputs
    /\ context_seen = NoContexts
    /\ image_prompts = <<>>
    /\ final_result = NoResult
    /\ error = "none"
    /\ cli = "running"

\* what the LLM may answer each task with
ResearchText == <<"f", "a", "c", "t", "s">>
DraftText == <<"d", "r", "a", "f", "t">>
ReviewTexts ==
    { Join(<<L_short_caption, L_blank, L_hello, L_long_colon, L_hello, L_tags>>, <<NL>>) }
PromptTexts ==
    { <<>>, Join(<<P_heading, P_numbered, P_bulleted, P_twenty, P_numbered, P_bulleted>>, <<NL>>) }

LlmOutputs ==
    [t \in Range(Tasks) |->
        CASE t = "research" -> {ResearchText}
          [] t = "writing" -> {DraftText}
          [] t = "review" -> ReviewTexts
          [] t = "image_prompt" -> PromptTexts]

ClockSeq ==
    << [year |-> 2024, month |-> 1, day |-> 5, hour |-> 9, minute |-> 3, second |-> 7],
       [year |-> 2025, month |-> 12, day |-> 31, hour |-> 23, minute |-> 59, second |-> 59] >>

\* values of datetime.now()
Clocks == Range(ClockSeq)

\* one provider selected, its own key set or not, the other keys unset
PipelineConfigs ==
    {c \in Configs :
        /\ c.NANO_BANANA_API_KEY \in {"", "key-1"}
        /\ c.SEGMIND_API_KEY \in {"", "key-1"}
        /\ c.STABILITY_API_KEY \in {"", "key-1"}
        /\ c.IMAGE_GENERATION_API # "nano_banana" => c.NANO_BANANA_API_KEY = ""
        /\ c.IMAGE_GENERATION_API # "segmind" => c.SEGMIND_API_KEY = ""
        /\ c.IMAGE_GENERATION_API # "stability" => c.STABILITY_API_KEY = ""}

IdleAdapter ==
    /\ config = NoConfig
    /\ generator = NoGenerator
    /\ prompts = <<>>
    /\ num_images = 0
    /\ gi = 0
    /\ gr = 0
    /\ images = <<>>
    /\ ig_pc = "idle"
    /\ http_log = <<>>
    /\ si = 0
    /\ saved_paths = <<>>

TextsOf(pool) == {Join(ls, <<NL>>) : ls \in SeqsUpTo(pool, MaxLines)}

(***************************************************************************)
(* The scrapers applied to a review text, one specification per method.    *)
(***************************************************************************)
InitShort ==
    /\ content \in TextsOf(ShortLinePool)
    /\ topic = <<>>
    /\ op = "none"
    /\ ret = <<>>
    /\ written = <<>> /\ other_written = <<>>
    /\ IdleAdapter
    /\ IdlePipeline

InitLong ==
    /\ content \in TextsOf(LongLinePool)
    /\ topic = <<>>
    /\ op = "none"
    /\ ret = <<>>
    /\ written = <<>> /\ other_written = <<>>
    /\ IdleAdapter
    /\ IdlePipeline

InitTags ==
    /\ content \in TextsOf(TagLinePool)
    /\ topic = <<>>
    /\ op = "none"
    /\ ret = <<>>
    /\ written = <<>> /\ other_written = <<>>
    /\ IdleAdapter
    /\ IdlePipeline

CallExtractShortCaption ==
    /\ op = "none"
    /\ op' = "extract_short_caption"
    /\ ret' = extract_short_caption(content)
    /\ UNCHANGED <<other_written, content, topic, written, adapterVars, pipeVars>>

CallExtractLongCaption ==
    /\ op = "none"
    /\ op' = "extract_long_caption"
    /\ ret' = extract_long_caption(content)
    /\ UNCHANGED <<other_written, content, topic, written, adapterVars, pipeVars>>

CallExtractHashtags ==
    /\ op = "none"
    /\ op' = "extract_hashtags"
    /\ ret' = extract_hashtags(content)
    /\ UNCHANGED <<other_written, content, topic, written, adapterVars, pipeVars>>

InitPrompts ==
    /\ content \in TextsOf(PromptLinePool)
    /\ topic \in PromptTopics
    /\ op = "none"
    /\ ret = <<>>
    /\ written = <<>> /\ other_written = <<>>
    /\ IdleAdapter
    /\ IdlePipeline

CallParseImagePrompts ==
    /\ op = "none"
    /\ op' = "parse_image_prompts"
    /\ ret' = parse_image_prompts(content, topic)
    /\ UNCHANGED <<other_written, content, topic, written, adapterVars, pipeVars>>

InitFile ==
    /\ content = <<>>
    /\ topic \in FileTopics
    /\ op = "none"
    /\ ret = <<>>
    /\ written = <<>> /\ other_written = <<>>
    /\ IdleAdapter
    /\ IdlePipeline

\* _save_result(result, topic): the file is opened for writing under the name built
CallSaveResult ==
    /\ op = "none"
    /\ \E now \in Clocks :
          /\ ret' = ResultFilename(topic, now)
          /\ written' = Append(written, ResultFilename(topic, now))
    /\ op' = "save_result"
    /\ UNCHANGED <<other_written, content, topic, adapterVars, pipeVars>>

SpecPrompts == InitPrompts /\ [][CallParseImagePrompts]_vars

SpecFile == InitFile /\ [][CallSaveResult]_vars

SpecShort == InitShort /\ [][CallExtractShortCaption]_vars

SpecLong == InitLong /\ [][CallExtractLongCaption]_vars

SpecTags == InitTags /\ [][CallExtractHashtags]_vars

(***************************************************************************)
(* SpecConstruct: ImageGenerator() under every configuration.              *)
(***************************************************************************)
InitConstruct ==
    /\ IdleText /\ topic = <<>> /\ written = <<>> /\ other_written = <<>>
    /\ config \in Configs
    /\ generator = NoGenerator
    /\ prompts = <<>> /\ num_images = 0 /\ gi = 0 /\ gr = 0 /\ images = <<>>
    /\ ig_pc = "idle" /\ http_log = <<>> /\ si = 0 /\ saved_paths = <<>>
    /\ IdlePipeline

Construct ==
    /\ generator.state = "none"
    /\ generator' = NewImageGenerator(config)
    /\ UNCHANGED <<other_written, textVars, config, prompts, num_images, gi, gr, images, ig_pc, http_log, si,
                   saved_paths, pipeVars>>

SpecConstruct == InitConstruct /\ [][Construct]_vars

(***************************************************************************)
(* SpecGenerate: generate_images(prompts, num_images) on a constructed     *)
(* generator of each provider.                                             *)
(***************************************************************************)
InitGenerate ==
    /\ IdleText /\ topic = <<>> /\ written = <<>> /\ other_written = <<>>
    /\ config = NoConfig
    /\ generator \in ReadyGenerators
    /\ prompts \in SeqsUpTo(GeneratePrompts, MaxPrompts)
    /\ num_images \in 0..MaxCount
    /\ gi = 0 /\ gr = 0 /\ images = <<>>
    /\ ig_pc = "idle" /\ http_log = <<>> /\ si = 0 /\ saved_paths = <<>>
    /\ IdlePipeline

CallGenerateImages ==
    /\ StartGenerate(prompts, num_images)
    /\ UNCHANGED <<other_written, textVars, pipeVars>>

GeneratePollinations == GeneratePollinationsStep /\ UNCHANGED <<other_written, textVars, pipeVars>>

GenerateKeyed == GenerateKeyedStep /\ UNCHANGED <<other_written, textVars, pipeVars>>

NextGenerate ==
    \/ CallGenerateImages
    \/ GeneratePollinations
    \/ GenerateKeyed

SpecGenerate == InitGenerate /\ [][NextGenerate]_vars

(***************************************************************************)
(* SpecSave: save_images on a list of image entries.                       *)
(***************************************************************************)
\* an entry whose base64 is empty and whose url is set
E_empty_base64 == [prompt |-> G_cat, base64 |-> <<>>, url |-> ServerUrl, api |-> "segmind"]

\* entries of the kinds generate_images returns
ImageEntries ==
    { SuccessImage("stability", G_cat),
      SuccessImage("nano_banana", G_cat),
      PollinationsImage(G_odd, SeedMin),
      ErrorImage("segmind", G_cat, "HTTPError"),
      E_empty_base64 }

InitSave ==
    /\ IdleText /\ topic = <<>> /\ written = <<>> /\ other_written = <<>>
    /\ config = NoConfig
    /\ generator \in ReadyGenerators
    /\ prompts = <<>> /\ num_images = 0 /\ gi = 0 /\ gr = 0
    /\ images \in SeqsUpTo(ImageEntries, MaxImages)
    /\ ig_pc = "generated" /\ http_log = <<>> /\ si = 0 /\ saved_paths = <<>>
    /\ IdlePipeline

SaveImages == SaveImagesStep /\ UNCHANGED <<other_written, content, topic, op, ret, pipeVars>>

CallSaveImages == StartSave /\ UNCHANGED <<other_written, textVars, pipeVars>>

NextSave ==
    \/ CallSaveImages
    \/ SaveImages

SpecSave == InitSave /\ [][NextSave]_vars

(***************************************************************************)
(* Spec: one run of main, from the configuration to the printed summary.   *)
(***************************************************************************)
Init ==
    /\ IdleText
    /\ topic = T_example
    /\ written = <<>> /\ other_written = <<>>
    /\ config \in PipelineConfigs
    /\ generator = NoGenerator
    /\ prompts = <<>> /\ num_images = 0 /\ gi = 0 /\ gr = 0 /\ images = <<>>
    /\ ig_pc = "idle" /\ http_log = <<>> /\ si = 0 /\ saved_paths = <<>>
    /\ stage = "Idle"
    /\ history = <<"Idle">>
    /\ save_flag \in BOOLEAN
    /\ outputs = NoOutputs
    /\ context_seen = NoContexts
    /\ image_prompts = <<>>
    /\ final_result = NoResult
    /\ error = "none"
    /\ cli = "running"

Next ==
    \/ ConstructCrew
    \/ Kickoff
    \/ TaskCompletes(LlmOutputs)
    \/ TaskFails
    \/ StartImageGeneration
    \/ GeneratePollinations
    \/ GenerateKeyed
    \/ AfterGenerate
    \/ SaveImages
    \/ PersistResult(ClockSeq)
    \/ ReturnResult
    \/ ReportError

Spec == Init /\ [][Next]_vars

\* the statements after crew.kickoff() that compute no text, and main's
\* except clause
Proceed ==
    \/ GenerateKeyed
    \/ AfterGenerate
    \/ SaveImages
    \/ ReturnResult
    \/ ReportError

\* the statements after crew.kickoff() that parse, quote or format a text
ProceedText ==
    \/ StartImageGeneration
    \/ GeneratePollinations
    \/ PersistResult(ClockSeq)

\* ENABLED <<ProceedText>>_vars, written out from the guards of its actions
ProceedTextEnabled ==
    \/ /\ stage = "ImagePrompting"
       /\ error = "none"
       /\ outputs["image_prompt"] # None
       /\ generator.state = "constructed"
       /\ ig_pc = "idle"
    \/ ig_pc = "generating" /\ generator.api_type = "pollinations"
    \/ stage = "ImageGeneration" /\ ig_pc \in {"saved", "skipped"}

\* a raised exception unwinds to main's except clause, and the statements of
\* create_content after kickoff run one after the other, without waiting:
\* weak fairness of Proceed and of ProceedText, the latter spelled out as
\* []<>~ENABLED \/ []<><<A>>_vars with the enabling condition in full
FairSpec ==
    /\ Spec
    /\ WF_vars(Proceed)
    /\ ([]<>~ProceedTextEnabled \/ []<><<ProceedText>>_vars)

(***************************************************************************)
(* SpecRuns: a run of main beside another invocation of the program, of    *)
(* which only the files it writes are kept.                                *)
(***************************************************************************)
RunTopics == {T_example, T_AI}

\* pollinations, and stability with its key set
RunConfigs ==
    {c \in PipelineConfigs :
        \/ c.IMAGE_GENERATION_API = "pollinations"
        \/ c.IMAGE_GENERATION_API = "stability" /\ c.STABILITY_API_KEY = "key-1"}

InitRuns ==
    /\ IdleText
    /\ topic = T_example
    /\ written = <<>> /\ other_written = <<>>
    /\ config \in RunConfigs
    /\ generator = NoGenerator
    /\ prompts = <<>> /\ num_images = 0 /\ gi = 0 /\ gr = 0 /\ images = <<>>
    /\ ig_pc = "idle" /\ http_log = <<>> /\ si = 0 /\ saved_paths = <<>>
    /\ stage = "Idle"
    /\ history = <<"Idle">>
    /\ save_flag = TRUE
    /\ outputs = NoOutputs
    /\ context_seen = NoContexts
    /\ image_prompts = <<>>
    /\ final_result = NoResult
    /\ error = "none"
    /\ cli = "running"

\* the other invocation's save_images writes its first image
OtherRunSavesImage ==
    /\ stage = "Idle"
    /\ generator.state = "none"
    /\ other_written = <<>>
    /\ \E api \in SupportedApis : other_written' = Append(other_written, ImagePath(1, api))
    /\ UNCHANGED <<textVars, adapterVars, pipeVars>>

\* the other invocation's _save_result writes its result file
OtherRunSavesResult ==
    /\ stage = "Idle"
    /\ generator.state = "none"
    /\ \A i \in 1..Len(other_written) : ~EndsWith(other_written[i], JsonSuffix)
    /\ \E t \in RunTopics : \E now \in Clocks :
          other_written' = Append(other_written, ResultFilename(t, now))
    /\ UNCHANGED <<textVars, adapterVars, pipeVars>>

NextRuns ==
    \/ OtherRunSavesImage
    \/ OtherRunSavesResult
    \/ Next

SpecRuns == InitRuns /\ [][NextRuns]_vars

(***************************************************************************)
(* Claims about the scrapers.                                              *)
(***************************************************************************)
\* `marker` occurs in `line`, letter case ignored
OccursIgnoringCase(line, marker) ==
    \E i \in 0..(Len(line) - Len(marker)) :
        \A j \in 1..Len(marker) : UpperChar(line[i + j]) = marker[j]

\* the lines of `lines` at the positions I, in order
RECURSIVE LinesAt(_, _)
LinesAt(lines, I) ==
    IF I = {} THEN <<>>
    ELSE <<lines[Min(I)]>> \o LinesAt(lines, I \ {Min(I)})

ShortMarked(lines) ==
    {k \in 1..Len(lines) :
        \/ OccursIgnoringCase(lines[k], SHORT_CAPTION)
        \/ OccursIgnoringCase(lines[k], SHORT_COLON)}

NonBlankAfter(lines, k) == {i \in (k + 1)..Len(lines) : Strip(lines[i]) # <<>>}

LongCaptionMarked(lines) ==
    {k \in 1..Len(lines) : OccursIgnoringCase(lines[k], LONG_CAPTION)}

LongMarked(lines) ==
    {k \in 1..Len(lines) :
        \/ OccursIgnoringCase(lines[k], LONG_CAPTION)
        \/ OccursIgnoringCase(lines[k], LONG_COLON)}

\* C4 as stated: a text without a "LONG CAPTION" marker is returned unchanged.
C4_Original ==
    (op = "extract_long_caption" /\ LongCaptionMarked(Split(content, NL)) = {})
        => ret = content

\* C4 amended: a text in which no line contains "LONG CAPTION" or "LONG:"
\* (case ignored) is returned unchanged, character for character.
C4_LongCaptionUnchanged ==
    (op = "extract_long_caption" /\ LongMarked(Split(content, NL)) = {})
        => ret = content

\* a marker-free text with several lines and surrounding whitespace comes back as is
C4_Witness ==
    /\ op = "extract_long_caption"
    /\ LongMarked(Split(content, NL)) = {}
    /\ Len(Split(content, NL)) > 1
    /\ Strip(content) # content
    /\ Strip(content) # <<>>
    /\ ret = content

IsCaptionLine(lines, i) == Strip(lines[i]) # <<>> /\ Strip(lines[i])[1] # "#"

IsHashLine(lines, i) == Strip(lines[i]) # <<>> /\ Strip(lines[i])[1] = "#"

\* the '#' lines after position m that have a caption line between m and them
LongStops(lines, m) ==
    {j \in (m + 1)..Len(lines) :
        IsHashLine(lines, j) /\ \E i \in (m + 1)..(j - 1) : IsCaptionLine(lines, i)}

LongLast(lines, m) ==
    IF LongStops(lines, m) = {} THEN Len(lines) ELSE Min(LongStops(lines, m)) - 1

\* C5: with a LONG CAPTION / LONG: marker line, the long caption is the
\* non-blank lines after the first marker line (trimmed, joined by newlines)
\* up to the first '#' line that comes after a collected caption line; '#'
\* lines before any caption line are passed over and do not stop it.
C5_LongCaption ==
    op = "extract_long_caption" =>
        LET lines == Split(content, NL)
            marked == LongMarked(lines)
        IN  marked # {} =>
                LET m == Min(marked)
                    trimmed == [i \in 1..Len(lines) |-> Strip(lines[i])]
                    kept == {i \in (m + 1)..LongLast(lines, m) : IsCaptionLine(lines, i)}
                IN  ret = Join(LinesAt(trimmed, kept), <<NL>>)

\* marker, a '#' line, a caption line, a '#' line: the first '#' line did not
\* stop the accumulation, the second did
C5_Witness ==
    /\ op = "extract_long_caption"
    /\ LET lines == Split(content, NL)
           marked == LongMarked(lines)
       IN  /\ marked # {}
           /\ Min(marked) + 3 <= Len(lines)
           /\ IsHashLine(lines, Min(marked) + 1)
           /\ IsCaptionLine(lines, Min(marked) + 2)
           /\ IsHashLine(lines, Min(marked) + 3)
    /\ ret = <<"H", "e", "l", "l", "o", " ", "w", "o", "r", "l", "d">>

\* C2: the hashtags are the whitespace-separated tokens of the text that
\* start with '#' and are longer than one character, in order of appearance,
\* cut to the first 30; so at most 30 entries, each starting with '#'.
C2_Hashtags ==
    op = "extract_hashtags" =>
        LET words == SplitWs(content)
            tagged == {i \in 1..Len(words) : words[i][1] = "#" /\ Len(words[i]) >= 2}
            all == LinesAt(words, tagged)
        IN  /\ Len(ret) <= 30
            /\ \A i \in 1..Len(ret) : ret[i][1] = "#"
            /\ Len(ret) = IF Len(all) > 30 THEN 30 ELSE Len(all)
            /\ \A i \in 1..Len(ret) : ret[i] = all[i]

\* more than 30 tokens qualify and exactly 30 come back; a bare '#' was passed over
C2_Witness ==
    /\ op = "extract_hashtags"
    /\ Len(ret) = 30
    /\ LET words == SplitWs(content)
       IN  /\ Cardinality({i \in 1..Len(words) : words[i][1] = "#"}) > 31
           /\ words[1] = <<"#">>
           /\ words[2] = <<"a", "#", "b">>
    /\ ret[1] = <<"#", "a", "i">>

\* C1: _parse_image_prompts returns exactly 3 prompts for every text and topic.
C1_ThreePrompts ==
    op = "parse_image_prompts" => Len(ret) = 3

\* a text with one usable line: that line, then two fallbacks naming the topic
C1_Witness ==
    /\ op = "parse_image_prompts"
    /\ Len(ret) = 3
    /\ ret[1] = <<"N", "e", "o", "n", " ", "c", "i", "t", "y", " ", "s", "k", "y", "l", "i",
                  "n", "e", " ", "a", "t", " ", "n", "i", "g", "h", "t">>
    /\ Contains(ret[2], <<"p", "o", "s", "t", " ", "a", "b", "o", "u", "t", " ">> \o topic)
    /\ Contains(ret[3], <<"v", "i", "s", "u", "a", "l", " ", "f", "o", "r", " ">> \o topic)

\* the name component of a result path: between the directory prefix and the
\* 21 characters of "_YYYYMMDD_HHMMSS.json"
ComponentOf(path) == Slice(path, Len(ResultsPrefix) + 1, Len(path) - 21)

AlnumChars ==
    { "A", "B", "C", "D", "E", "F", "G", "H", "I", "J", "K", "L", "M", "N", "O", "P", "Q",
      "R", "S", "T", "U", "V", "W", "X", "Y", "Z", "a", "b", "c", "d", "e", "f", "g", "h",
      "i", "j", "k", "l", "m", "n", "o", "p", "q", "r", "s", "t", "u", "v", "w", "x", "y",
      "z", "0", "1", "2", "3", "4", "5", "6", "7", "8", "9" }

\* the characters of t that are alphanumerics, spaces, hyphens or underscores
KeptOf(t) == LinesAt(t, {i \in 1..Len(t) : t[i] \in AlnumChars \cup {" ", "-", "_"}})

SpacesToUnderscores(s) == [i \in 1..Len(s) |-> IF s[i] = " " THEN "_" ELSE s[i]]

\* s without its trailing spaces
RECURSIVE DropTrailingSpaces(_)
DropTrailingSpaces(s) ==
    IF s # <<>> /\ s[Len(s)] = " " THEN DropTrailingSpaces(SubSeq(s, 1, Len(s) - 1)) ELSE s

\* the path is results/instagram_content_<component>_<YYYYMMDD_HHMMSS>.json
HasResultPathShape(path) ==
    /\ Len(path) >= Len(ResultsPrefix) + 21
    /\ SubSeq(path, 1, Len(ResultsPrefix)) = ResultsPrefix
    /\ LET stamp == SubSeq(path, Len(path) - 20, Len(path))
       IN  /\ stamp[1] = "_"
           /\ \A i \in 2..9 : stamp[i] \in Range(DigitChars)
           /\ stamp[10] = "_"
           /\ \A i \in 11..16 : stamp[i] \in Range(DigitChars)
           /\ SubSeq(stamp, 17, 21) = JsonSuffix

\* C6 as stated: the component is the topic's alphanumerics, spaces, hyphens
\* and underscores with the spaces turned into underscores.
C6_Original ==
    op = "save_result" => ComponentOf(ret) = SpacesToUnderscores(KeptOf(topic))

\* C6 amended: the component is the topic's alphanumerics, spaces, hyphens and
\* underscores, trailing spaces dropped, then spaces turned into underscores;
\* it holds only alphanumerics, hyphens and underscores; "AI: The Future?!"
\* gives "AI_The_Future"; the file written is
\* results/instagram_content_<component>_<YYYYMMDD_HHMMSS>.json.
C6_FileName ==
    op = "save_result" =>
        /\ HasResultPathShape(ret)
        /\ written = <<ret>>
        /\ ComponentOf(ret) = SpacesToUnderscores(DropTrailingSpaces(KeptOf(topic)))
        /\ \A i \in 1..Len(ComponentOf(ret)) : ComponentOf(ret)[i] \in AlnumChars \cup {"-", "_"}
        /\ topic = T_example =>
              ComponentOf(ret) = <<"A", "I", "_", "T", "h", "e", "_", "F", "u", "t", "u", "r", "e">>

\* the spec's example topic has been saved, with single-digit date fields padded
C6_Witness ==
    /\ op = "save_result"
    /\ topic = T_example
    /\ ret = ResultsPrefix
             \o <<"A", "I", "_", "T", "h", "e", "_", "F", "u", "t", "u", "r", "e">>
             \o <<"_", "2", "0", "2", "4", "0", "1", "0", "5", "_", "0", "9", "0", "3", "0", "7">>
             \o JsonSuffix
    /\ written = <<ret>>

(***************************************************************************)
(* Claims about the image adapter.                                         *)
(***************************************************************************)
\* C9: a key-based provider without a configured key fails at construction,
\* so no constructed ImageGenerator of a key-based provider has an empty key.
C9_NoKeylessKeyBasedGenerator ==
    (generator.state = "constructed" /\ generator.api_type \in KeyBasedApis)
        => generator.api_key # ""

\* the character a %XX escape stands for
Unescaped(h1, h2) ==
    CASE h1 = "2" /\ h2 = "0" -> " "
      [] h1 = "2" /\ h2 = "1" -> "!"
      [] h1 = "2" /\ h2 = "3" -> "#"
      [] h1 = "2" /\ h2 = "5" -> "%"
      [] h1 = "2" /\ h2 = "6" -> "&"
      [] h1 = "2" /\ h2 = "C" -> ","
      [] h1 = "3" /\ h2 = "A" -> ":"
      [] h1 = "3" /\ h2 = "D" -> "="
      [] h1 = "3" /\ h2 = "F" -> "?"
      [] h1 = "0" /\ h2 = "9" -> "\t"
      [] OTHER -> "?"

BulletEscape == <<"%", "E", "2", "%", "8", "0", "%", "A", "2">>

\* urllib.parse.unquote
RECURSIVE Unquote(_)
Unquote(u) ==
    IF u = <<>> THEN <<>>
    ELSE IF StartsWith(u, BulletEscape)
         THEN <<Bullet>> \o Unquote(Slice(u, Len(BulletEscape) + 1, Len(u)))
    ELSE IF u[1] = "%" /\ Len(u) >= 3
         THEN <<Unescaped(u[2], u[3])>> \o Unquote(Slice(u, 4, Len(u)))
    ELSE <<u[1]>> \o Unquote(Tail(u))

UrlSafeChars == AlnumChars \cup {"_", ".", "-", "~", "/", "%"}

\* the URL is the pollinations address, the escaped prompt, then a query that
\* ends in seed=<digits>
IsPollinationsUrlFor(url, prompt) ==
    /\ url # <<>>
    /\ StartsWith(url, BaseUrl)
    /\ \E q \in (Len(BaseUrl) + 1)..Len(url) :
          /\ url[q] = "?"
          /\ \A i \in (Len(BaseUrl) + 1)..(q - 1) : url[i] \in UrlSafeChars
          /\ Unquote(Slice(url, Len(BaseUrl) + 1, q - 1)) = prompt
          /\ \E e \in (q + 1)..(Len(url) - 1) :
                /\ SubSeq(url, e - 4, e) = <<"s", "e", "e", "d", "=">>
                /\ \A i \in (e + 1)..Len(url) : url[i] \in Range(DigitChars)

RECURSIVE AddedBy(_)
AddedBy(i) ==
    IF i = 0 THEN 0
    ELSE AddedBy(i - 1)
            + (IF http_log[i].outcome.status = "error" THEN 1 ELSE http_log[i].outcome.items)

\* C8: under a key-based provider no failure raises out of generate_images;
\* every prompt is POSTed exactly once, in order, whatever failed before it;
\* a failed POST adds exactly one image carrying the prompt and the error
\* message with no URL and no base64 payload, a successful one adds the
\* images of its body.
C8_KeyedFailures ==
    (generator.api_type \in KeyBasedApis /\ ig_pc \in {"generating", "generated"}) =>
        /\ Len(http_log) = (IF ig_pc = "generated" THEN Len(prompts) ELSE gi - 1)
        /\ Len(images) = AddedBy(Len(http_log))
        /\ \A i \in 1..Len(http_log) :
              /\ http_log[i].method = "POST"
              /\ http_log[i].prompt = prompts[i]
              /\ \A j \in (AddedBy(i - 1) + 1)..AddedBy(i) :
                    /\ images[j].prompt = prompts[i]
                    /\ images[j].api = generator.api_type
                    /\ IF http_log[i].outcome.status = "error"
                       THEN /\ images[j].error = http_log[i].outcome.error
                            /\ images[j].url = None
                            /\ "base64" \notin DOMAIN images[j]
                       ELSE "error" \notin DOMAIN images[j]

\* the first of two prompts failed, the second was still POSTed and answered
C8_Witness ==
    /\ generator.api_type \in KeyBasedApis
    /\ ig_pc = "generated"
    /\ Len(prompts) = 2
    /\ Len(http_log) = 2
    /\ http_log[1].outcome.status = "error"
    /\ http_log[2].outcome.status = "ok"
    /\ http_log[2].outcome.items = 1
    /\ Len(images) = 2
    /\ "error" \in DOMAIN images[1]
    /\ "base64" \in DOMAIN images[2]

(***************************************************************************)
(* Claims about the pipeline.                                              *)
(***************************************************************************)
Entered(s) == s \in Range(history)

\* C10: the stages are entered in the order Idle, Research, Writing, Review,
\* ImagePrompting, ImageGeneration, Persisted, Done, none skipped, repeated
\* or reordered; Writing starts with Research's output as its context,
\* Review with Writing's; image generation starts only when all four tasks
\* have an output; the JSON file is written only once image generation and
\* the saving (if any) are over.
C10_StageOrder ==
    /\ Len(history) <= Len(StageOrder)
    /\ history = SubSeq(StageOrder, 1, Len(history))
    /\ stage = history[Len(history)]
    /\ Entered("Writing") =>
          outputs["research"] # None /\ context_seen["writing"] = <<outputs["research"]>>
    /\ Entered("Review") =>
          outputs["writing"] # None /\ context_seen["review"] = <<outputs["writing"]>>
    /\ ig_pc # "idle" => Entered("ImageGeneration")
    /\ Entered("ImageGeneration") => \A t \in Range(Tasks) : outputs[t] # None
    /\ (\E i \in 1..Len(written) : EndsWith(written[i], JsonSuffix)) =>
          Entered("Persisted") /\ ig_pc \in {"saved", "skipped"}

\* a run that went through every stage, saved an image and wrote the result
C10_Witness ==
    /\ stage = "Done"
    /\ history = StageOrder
    /\ cli = "completed"
    /\ Len(written) >= 2
    /\ EndsWith(written[Len(written)], JsonSuffix)
    /\ context_seen["review"] = <<DraftText>>

\* what a run leaves behind when nothing after the LLM stages has happened
NothingAttempted ==
    /\ ig_pc = "idle"
    /\ http_log = <<>>
    /\ images = <<>>
    /\ saved_paths = <<>>
    /\ written = <<>>
    /\ final_result = NoResult
    /\ ~Entered("ImageGeneration")

\* C11: when an LLM stage fails, the failure is not caught by create_content:
\* it reaches main, which reports it and never prints the summary, and in
\* that run no image generation is attempted, no image file is saved and no
\* JSON result file is written.
C11_LlmFailure ==
    /\ [](error = "LLMError" => (NothingAttempted /\ cli # "completed"))
    /\ (error = "LLMError" ~> cli = "reported")

\* the writing task failed after research had answered, and main reported it
C11_Witness ==
    /\ error = "LLMError"
    /\ stage = "Writing"
    /\ outputs["research"] # None
    /\ cli = "reported"

PngSuffix == <<".", "p", "n", "g">>

IsPng(path) == EndsWith(path, PngSuffix)

\* the POSTs of the log that failed
FailedPosts ==
    {i \in 1..Len(http_log) :
        http_log[i].method = "POST" /\ http_log[i].outcome.status = "error"}

\* the returned result tells what happened: every failed POST has its entry
\* with the prompt and the error, and the saved paths are the PNG files written
ResultFaithful ==
    /\ final_result # NoResult
    /\ final_result.generated_images = images
    /\ \A i \in FailedPosts :
          \E j \in 1..Len(final_result.generated_images) :
             LET g == final_result.generated_images[j]
             IN  /\ "error" \in DOMAIN g
                 /\ g.error = http_log[i].outcome.error
                 /\ g.prompt = http_log[i].prompt
    /\ Cardinality({j \in 1..Len(final_result.generated_images) :
                        "error" \in DOMAIN final_result.generated_images[j]})
          = Cardinality(FailedPosts)
    /\ final_result.saved_image_paths = SelectSeq(written, IsPng)
    /\ \E i \in 1..Len(written) : EndsWith(written[i], JsonSuffix)

AllTasksAnswered == \A t \in Range(Tasks) : outputs[t] # None

HasBase64(e) == "base64" \in DOMAIN e /\ e.base64 # None /\ e.base64 # <<>>
HasUrl(e) == "url" \in DOMAIN e /\ e.url # None /\ e.url # <<>>

\* the path entry i is written at
PathOfEntry(i) == ImagePath(i, images[i].api)

\* the GET requests of the log, in order
Downloads == SelectSeq(http_log, LAMBDA r : r.method = "GET")

\* the entries a download is made for: those with a URL and no base64 payload
RECURSIVE UrlEntriesUpTo(_)
UrlEntriesUpTo(n) ==
    IF n = 0 THEN <<>>
    ELSE UrlEntriesUpTo(n - 1)
            \o (IF ~HasBase64(images[n]) /\ HasUrl(images[n]) THEN <<n>> ELSE <<>>)

\* the paths of the entries up to n that were written, in input order
RECURSIVE WrittenPathsUpTo(_)
WrittenPathsUpTo(n) ==
    IF n = 0 THEN <<>>
    ELSE WrittenPathsUpTo(n - 1)
            \o (IF PathOfEntry(n) \in Range(written) THEN <<PathOfEntry(n)>> ELSE <<>>)

\* C13: save_images never raises for a failing entry and returns exactly the
\* paths of the entries it wrote, in input order: an entry with neither a
\* base64 payload nor a URL is never written, an entry with a URL (and no
\* base64) is downloaded once, an entry whose decoding or download failed is
\* not written and not returned, and every entry after it is still
\* processed.
C13_SaveImages ==
    /\ ig_pc # "raised"
    /\ ig_pc = "saved" =>
          /\ si = Len(images) + 1
          /\ saved_paths = WrittenPathsUpTo(Len(images))
          /\ Len(written) = Len(saved_paths)
          /\ \A i \in 1..Len(images) :
                (~HasBase64(images[i]) /\ ~HasUrl(images[i]))
                    => PathOfEntry(i) \notin Range(written)
          /\ Len(Downloads) = Len(UrlEntriesUpTo(Len(images)))
          /\ \A k \in 1..Len(Downloads) :
                /\ Downloads[k].image = UrlEntriesUpTo(Len(images))[k]
                /\ (Downloads[k].outcome = "saved")
                      <=> (PathOfEntry(Downloads[k].image) \in Range(saved_paths))

\* an error entry, a URL entry whose download failed and a base64 entry that
\* was written: only the third path is returned
C13_Witness ==
    /\ ig_pc = "saved"
    /\ Len(images) = 3
    /\ "error" \in DOMAIN images[1]
    /\ ~HasBase64(images[2]) /\ HasUrl(images[2])
    /\ HasBase64(images[3])
    /\ Len(Downloads) = 1
    /\ Downloads[1].outcome = "raised"
    /\ saved_paths = <<PathOfEntry(3)>>

(***************************************************************************)
(* Claims about two invocations.                                           *)
(***************************************************************************)
\* C14: no file path written by one run (the JSON result file or a saved
\* PNG file) is also written by another run, whatever the topics and the
\* times of the two runs.
C14_NoSharedPath ==
    \A i \in 1..Len(written) : \A j \in 1..Len(other_written) :
        written[i] # other_written[j]

(***************************************************************************)
(* Claims about the POSTs of the key-based providers.                      *)
(***************************************************************************)
Posts == SelectSeq(http_log, LAMBDA r : r.method = "POST")

\* the images the bodies of the first i POSTs list
RECURSIVE ItemsOf(_)
ItemsOf(i) ==
    IF i = 0 THEN 0
    ELSE ItemsOf(i - 1) + (IF Posts[i].outcome.status = "ok" THEN Posts[i].outcome.items ELSE 0)

SuccessEntries == {j \in 1..Len(images) : "error" \notin DOMAIN images[j]}

SuccessfulPosts == {i \in 1..Len(Posts) : Posts[i].outcome.status = "ok"}

EnumerationSet == {"0", "1", "2", "3", "4", "5", "6", "7", "8", "9", ".", "-", "U+2022", " "}

\* the trimmed line is non-blank, does not start with '#', is longer than 20
Eligible(t) == t # <<>> /\ t[1] # "#" /\ Len(t) > 20

\* t from its first character that is not an enumeration character
AfterEnumeration(t) ==
    LET rest == {i \in 1..Len(t) : t[i] \notin EnumerationSet}
    IN  IF rest = {} THEN <<>>
        ELSE [j \in 1..(Len(t) - Min(rest) + 1) |-> t[Min(rest) + j - 1]]

\* the eligible lines up to n, each without its leading enumeration characters
RECURSIVE StatedPromptsUpTo(_, _)
StatedPromptsUpTo(lines, n) ==
    IF n = 0 THEN <<>>
    ELSE StatedPromptsUpTo(lines, n - 1)
            \o (IF Eligible(Strip(lines[n])) THEN <<AfterEnumeration(Strip(lines[n]))>>
                ELSE <<>>)

\* the same, further trimmed of white space, and left out when nothing remains
RECURSIVE KeptPromptsUpTo(_, _)
KeptPromptsUpTo(lines, n) ==
    IF n = 0 THEN <<>>
    ELSE KeptPromptsUpTo(lines, n - 1)
            \o (IF /\ Eligible(Strip(lines[n]))
                   /\ Strip(AfterEnumeration(Strip(lines[n]))) # <<>>
                THEN <<Strip(AfterEnumeration(Strip(lines[n])))>>
                ELSE <<>>)

\* the first three of the prompts, after the three fallbacks when there are
\* fewer than three
FirstThreeOrFallbacks(kept, t) ==
    IF Len(kept) >= 3 THEN <<kept[1], kept[2], kept[3]>>
    ELSE LET all == kept \o <<Fallback1(t), Fallback2(t), Fallback3(t)>>
         IN  <<all[1], all[2], all[3]>>

\* C16 as stated: every eligible line is kept, with only its leading
\* enumeration characters removed.
C16_Original ==
    op = "parse_image_prompts" =>
        LET lines == Split(content, NL)
        IN  ret = FirstThreeOrFallbacks(StatedPromptsUpTo(lines, Len(lines)), topic)

\* C16: _parse_image_prompts keeps, in input order, each line that after
\* trimming is non-blank, does not start with '#', is longer than 20
\* characters and does not consist of enumeration characters only, without
\* its leading enumeration characters and without white space around what
\* is left; with 3 or more such prompts the result is the first 3 and holds
\* no fallback, with fewer it is those prompts followed by the fallbacks for
\* the topic in their order, cut to 3.
C16_KeptPrompts ==
    op = "parse_image_prompts" =>
        LET lines == Split(content, NL)
        IN  ret = FirstThreeOrFallbacks(KeptPromptsUpTo(lines, Len(lines)), topic)

\* a line of enumeration characters only is passed over: the two usable
\* lines around it come first, then the first fallback
C16_Witness ==
    /\ op = "parse_image_prompts"
    /\ content = Join(<<P_tabbed, P_digits, P_numbered>>, <<NL>>)
    /\ ret = <<P_twenty \o <<"!">>, P_twenty, Fallback1(topic)>>

====
